---- MODULE Spec2Model ----
(***************************************************************************)
(* The asynchronous crawl-job pipeline of connectors/source/firecrawl.py:  *)
(* the launcher (_invoke_firecrawl_job), the prober (_check_job_status)    *)
(* and the background orchestration (wait_for_job_completion) with its     *)
(* materializer and uploader, run on one asyncio event loop.               *)
(*                                                                         *)
(* Python strings that the code inspects or concatenates (URIs, job ids,   *)
(* file names, file contents) are sequences of one-character strings.      *)
(* A dict is a record; "key in d" is "key \in DOMAIN d".  A value returned  *)
(* by the remote client is tagged: [tag |-> "raise"] (the call raised),    *)
(* [tag |-> "none"] (a value that is no dict), [tag |-> "dict", d |-> r].  *)
(* [tag |-> "silent"] is a call that never returns.                       *)
(* An f-string message is a record [msg |-> <text>, ...interpolated...].   *)
(*                                                                         *)
(* The event loop is cooperative: `loop` names the coroutine that holds    *)
(* it.  A coroutine keeps the loop from one suspension point to the next;  *)
(* the only suspension point of the pipeline is asyncio.sleep in the       *)
(* polling loop.  The remote calls are synchronous, so the time they take  *)
(* passes for every coroutine of the process.                              *)
(*                                                                         *)
(* Spec is the pipeline with its callers; PairSpec is two orchestrations   *)
(* created together; MatSpec is the two Materializers called on their own  *)
(* with payloads of every shape (mrun).  A file holds the bytes that       *)
(* Python's text mode writes for a text.                                   *)
(***************************************************************************)
EXTENDS Integers, Sequences, FiniteSets, TLC

VARIABLES env_key, loop, nreq, inv, probe, tasks, scheduled, acks, handoff, uploads, mrun

vars == <<env_key, loop, nreq, inv, probe, tasks, scheduled, acks, handoff, uploads, mrun>>

\* the variables of the pipeline; mrun is a run of a Materializer on its own
pipeline == <<env_key, loop, nreq, inv, probe, tasks, scheduled, acks, handoff, uploads>>

(***************************************************************************)
(* Bounds of the exploration: the calls of the tools (launcher, prober,    *)
(* direct orchestration) made in a run, the orchestrations alive at a      *)
(* time, and the longest a blocking call takes.  Time is counted in        *)
(* abstract units; poll_interval and timeout are arguments of              *)
(* wait_for_job_completion (defaults 30 and 3600) and are explored at a    *)
(* small scale.                                                            *)
(***************************************************************************)
MaxRequests == 2
MaxTasks == 1
MaxCallDur == 1
PollInterval == 1
Timeout == 1

NameLimit == 200

Max(a, b) == IF a >= b THEN a ELSE b

(***************************************************************************)
(* Strings                                                                 *)
(***************************************************************************)
S3Scheme == <<"s", "3", ":", "/", "/">>
Slash == <<"/">>

StartsWith(s, p) == Len(s) >= Len(p) /\ SubSeq(s, 1, Len(p)) = p
EndsWith(s, p) == Len(s) >= Len(p) /\ SubSeq(s, Len(s) - Len(p) + 1, Len(s)) = p

\* The storage URIs a caller may pass: "", "b", "s3://b", "s3://b/".
Uris == {<<>>, <<"b">>, S3Scheme \o <<"b">>, S3Scheme \o <<"b", "/">>}

JobIds == {<<"j", "1">>, <<"j", "2">>}

KnownTypes == {"crawlhtml", "llmfulltxt"}
JobTypes == KnownTypes \cup {"invalid_type"}

\* faulty variant: the dispatch takes every kind for a known one
IsKnownTypeLax(job_type) == job_type \in JobTypes

\* the if / elif / else dispatch on job_type
IsKnownType(job_type) == job_type \in KnownTypes

\* faulty variant: a slash is appended whatever the URI ends with
ensure_valid_s3_uri_Append(s3_uri) ==
  IF s3_uri = <<>>
    THEN [ok |-> FALSE, err |-> "S3 URI is required"]
  ELSE IF ~StartsWith(s3_uri, S3Scheme)
    THEN [ok |-> FALSE, err |-> "S3 URI must start with 's3://'"]
  ELSE [ok |-> TRUE, val |-> s3_uri \o Slash]

\* faulty variant: no check of the scheme
ensure_valid_s3_uri_NoScheme(s3_uri) ==
  IF s3_uri = <<>>
    THEN [ok |-> FALSE, err |-> "S3 URI is required"]
  ELSE IF ~EndsWith(s3_uri, Slash)
    THEN [ok |-> TRUE, val |-> s3_uri \o Slash]
  ELSE [ok |-> TRUE, val |-> s3_uri]

(***************************************************************************)
(* _ensure_valid_s3_uri: a ValueError ([ok |-> FALSE] with its message) or *)
(* the URI with a trailing slash.                                          *)
(***************************************************************************)
ensure_valid_s3_uri(s3_uri) ==
  IF s3_uri = <<>>
    THEN [ok |-> FALSE, err |-> "S3 URI is required"]
  ELSE IF ~StartsWith(s3_uri, S3Scheme)
    THEN [ok |-> FALSE, err |-> "S3 URI must start with 's3://'"]
  ELSE IF ~EndsWith(s3_uri, Slash)
    THEN [ok |-> TRUE, val |-> s3_uri \o Slash]
  ELSE [ok |-> TRUE, val |-> s3_uri]

MissingKey ==
  [error |-> [msg |-> "Firecrawl API key is required. Set FIRECRAWL_API_KEY environment variable."]]

(***************************************************************************)
(* What the remote "start job" call may answer.                            *)
(***************************************************************************)
StartDicts ==
  {[success |-> FALSE],
   [success |-> TRUE, id |-> <<"j", "1">>, status |-> "scraping"],
   [success |-> TRUE, id |-> <<"j", "2">>]}

\* the call raises, returns None, returns a dict, or never returns: the
\* client is called synchronously and the code passes it no time limit
Silent == [tag |-> "silent"]
NoRecord == [unset |-> TRUE]

StartResponses ==
  {[tag |-> "raise"], [tag |-> "none"], Silent} \cup {[tag |-> "dict", d |-> d] : d \in StartDicts}


(***************************************************************************)
(* _invoke_firecrawl_job up to its return statement: the record returned,  *)
(* whether the remote start call was made, and whether (and with which     *)
(* arguments) asyncio.create_task(wait_for_job_completion(...)) was called.*)
(* key: FIRECRAWL_API_KEY is set; resp: the answer of the start call.      *)
(***************************************************************************)
\* faulty variant: the launcher's handler lets the exception through
LauncherRaises(job_type, detail) == [raised |-> detail]

\* "except Exception as e: return {error: ...}" of the launcher
LauncherExcept(job_type, detail) ==
  [error |-> [msg |-> "Error starting Firecrawl job: ", kind |-> job_type, detail |-> detail]]

invoke_firecrawl_job(key, s3_uri, job_type, resp) ==
  LET v == ensure_valid_s3_uri(s3_uri)
      none == [called |-> FALSE, create |-> FALSE, job_id |-> <<>>, target |-> <<>>]
      fail == [called |-> TRUE, create |-> FALSE, job_id |-> <<>>, target |-> <<>>]
  IN
  IF ~key
    THEN [result |-> MissingKey] @@ none
  ELSE IF ~v.ok
    THEN [result |-> [error |-> [msg |-> "Invalid S3 URI: ", detail |-> v.err]]] @@ none
  ELSE IF ~IsKnownType(job_type)
    THEN [result |-> [error |-> [msg |-> "Unknown job type: ", kind |-> job_type]]] @@ none
  ELSE IF resp = Silent
    THEN [result |-> NoRecord] @@ fail
  ELSE IF resp.tag = "raise"
    THEN [result |-> LauncherExcept(job_type, "remote call failed")] @@ fail
  ELSE IF resp.tag = "none"
    THEN [result |-> LauncherExcept(job_type, "TypeError")] @@ fail
  ELSE IF "id" \in DOMAIN resp.d
    THEN [result |-> [id |-> resp.d.id,
                      status |-> IF "status" \in DOMAIN resp.d THEN resp.d.status ELSE "started",
                      s3_uri |-> v.val \o resp.d.id \o Slash,
                      message |-> [msg |-> "Firecrawl job started and will be automatically processed when complete",
                                   kind |-> job_type]],
          called |-> TRUE, create |-> TRUE, job_id |-> resp.d.id, target |-> v.val]
  ELSE [result |-> [error |-> [msg |-> "Failed to start Firecrawl job", kind |-> job_type],
                    details |-> resp.d]] @@ fail

(***************************************************************************)
(* What the remote status call may answer for a job of a kind.             *)
(***************************************************************************)
PageA == [html |-> <<"x">>, metadata |-> [url |-> <<"a", "/", "b">>]]
PageNoHtml == [metadata |-> [url |-> <<"c">>]]
PageB == [html |-> <<"y", "z">>]
\* a page whose URL differs from PageA's in one character
PageA2 == [html |-> <<"w">>, metadata |-> [url |-> <<"a", "?", "b">>]]

\* a JSON value that is a list, or null
PyList(v) == [tag |-> "list", v |-> v]
PyNull == [tag |-> "null"]
\* faulty variant: the length is not taken
PyLenZero(v) == [ok |-> v.tag = "list", n |-> 0]

\* len(v): a TypeError for None
PyLen(v) == IF v.tag = "list" THEN [ok |-> TRUE, n |-> Len(v.v)] ELSE [ok |-> FALSE]

CrawlDone ==
  [status |-> "completed", completed |-> 2, total |-> 2, data |-> <<PageA, PageNoHtml, PageB>>]
LlmDone ==
  [status |-> "completed",
   data |-> [llmsfulltxt |-> <<"t", "x">>, processedUrls |-> PyList(<< <<"u">> >>)]]
LlmDoneNullUrls ==
  [status |-> "completed", data |-> [llmsfulltxt |-> <<"t", "x">>, processedUrls |-> PyNull]]
\* "completed" with nothing else in the payload
DoneNoData == [status |-> "completed"]
\* the pages /a/b and /a?b of a site
CrawlDoneTwoPages ==
  [status |-> "completed", completed |-> 2, total |-> 2, data |-> <<PageA, PageA2>>]

StatusDicts(job_type) ==
  IF job_type = "crawlhtml"
    THEN {[status |-> "scraping", completed |-> 1, total |-> 2], [success |-> TRUE],
          CrawlDone, CrawlDoneTwoPages, DoneNoData}
    ELSE {[status |-> "processing"], [success |-> TRUE], LlmDone, LlmDoneNullUrls, DoneNoData}

StatusResponses(job_type) ==
  {[tag |-> "raise"], [tag |-> "none"], Silent}
    \cup {[tag |-> "dict", d |-> d] : d \in StatusDicts(job_type)}

NoResp == [tag |-> "unset"]

\* dict.get(key, default) on the fields the code reads
GetStatus(d, default) == IF "status" \in DOMAIN d THEN d.status ELSE default
GetCompleted(d) == IF "completed" \in DOMAIN d THEN d.completed ELSE 0
GetTotal(d) == IF "total" \in DOMAIN d THEN d.total ELSE 0

(***************************************************************************)
(* _check_job_status: the record returned and whether the remote status    *)
(* call was made.                                                          *)
(***************************************************************************)
\* "except Exception as e: return {error: ...}" of the prober
ProberExcept(job_type, detail) ==
  [error |-> [msg |-> "Error checking status: ", kind |-> job_type, detail |-> detail]]

check_job_status(key, job_id, job_type, resp) ==
  IF ~key
    THEN [result |-> MissingKey, called |-> FALSE]
  ELSE IF ~IsKnownType(job_type)
    THEN [result |-> [error |-> [msg |-> "Unknown job type: ", kind |-> job_type]], called |-> FALSE]
  ELSE IF resp = Silent
    THEN [result |-> NoRecord, called |-> TRUE]
  ELSE IF resp.tag = "raise"
    THEN [result |-> ProberExcept(job_type, "remote call failed"), called |-> TRUE]
  ELSE IF resp.tag = "none"
    THEN [result |-> ProberExcept(job_type, "AttributeError"), called |-> TRUE]
  ELSE IF job_type = "crawlhtml"
    THEN [result |-> [id |-> job_id, status |-> GetStatus(resp.d, "unknown"),
                      completed_urls |-> GetCompleted(resp.d), total_urls |-> GetTotal(resp.d)],
          called |-> TRUE]
  ELSE IF GetStatus(resp.d, "none") = "completed" /\ "data" \in DOMAIN resp.d
    THEN [result |-> [id |-> job_id, status |-> GetStatus(resp.d, "unknown"),
                      llmfulltxt |-> IF "llmsfulltxt" \in DOMAIN resp.d.data
                                       THEN resp.d.data.llmsfulltxt ELSE <<>>],
          called |-> TRUE]
  ELSE [result |-> [id |-> job_id, status |-> GetStatus(resp.d, "unknown")], called |-> TRUE]


(***************************************************************************)
(* Result Materializer                                                     *)
(***************************************************************************)
RECURSIVE ReplaceFrom(_, _, _, _)
\* s[pos..] with every non-overlapping occurrence of pat, left to right,
\* replaced by rep: the text up to the next occurrence, rep, and the rest
ReplaceFrom(s, pat, rep, pos) ==
  LET found == {k \in pos..(Len(s) - Len(pat) + 1) : SubSeq(s, k, k + Len(pat) - 1) = pat}
  IN IF found = {} THEN SubSeq(s, pos, Len(s))
     ELSE LET k == CHOOSE x \in found : \A y \in found : x <= y
          IN SubSeq(s, pos, k - 1) \o rep \o ReplaceFrom(s, pat, rep, k + Len(pat))

\* str.replace(pat, rep), pat not empty
ReplaceAll(s, pat, rep) == ReplaceFrom(s, pat, rep, 1)

\* s.split(c)[0]
BeforeFirst(s, c) ==
  IF \E k \in 1..Len(s) : s[k] = c
    THEN SubSeq(s, 1, (CHOOSE k \in 1..Len(s) : s[k] = c /\ \A j \in 1..(k - 1) : s[j] # c) - 1)
    ELSE s

Digits == <<"0", "1", "2", "3", "4", "5", "6", "7", "8", "9">>
HtmlSuffix == <<".", "h", "t", "m", "l">>
PagePrefix == <<"p", "a", "g", "e", "-">>
LlmFileName == <<"l", "l", "m", "f", "u", "l", "l", ".", "t", "x", "t">>

HexDigits ==
  <<"0", "1", "2", "3", "4", "5", "6", "7", "8", "9", "a", "b", "c", "d", "e", "f">>

\* the characters of the URLs explored, for the digest below
UrlChars ==
  <<"a", "b", "c", "h", "t", "p", "s", "x", "y", "z", "w", "/", "?", "&", ":", "-", "_", ".",
    "0", "1", "2", "3", "4", "5", "6", "7", "8", "9">>

Ord(c) == IF \E k \in 1..Len(UrlChars) : UrlChars[k] = c
            THEN CHOOSE k \in 1..Len(UrlChars) : UrlChars[k] = c
            ELSE 0

RECURSIVE Weight(_, _, _)
\* the sum of k * Ord(url[k]) for k in lo..hi
Weight(url, lo, hi) ==
  IF lo > hi THEN 0
  ELSE IF lo = hi THEN lo * Ord(url[lo])
  ELSE LET mid == (lo + hi) \div 2 IN Weight(url, lo, mid) + Weight(url, mid + 1, hi)

\* hashlib.md5(url.encode()).hexdigest(): 32 hexadecimal characters that are
\* a function of the whole URL.  MD5 itself is not computed: the digest is
\* a positional checksum of the URL, which tells the URLs explored apart.
md5_hexdigest(url) ==
  LET n == Weight(url, 1, Len(url))
  IN [k \in 1..32 |-> IF 32 - k >= 7 THEN "0"
                        ELSE HexDigits[((n \div (16 ^ (32 - k))) % 16) + 1]]

\* the file name _process_crawlhtml_results gives the page of a URL
CrawlFileName(url) ==
  LET u1 == ReplaceAll(ReplaceAll(url, <<"h", "t", "t", "p", "s", ":", "/", "/">>, <<>>),
                       <<"h", "t", "t", "p", ":", "/", "/">>, <<>>)
      u2 == ReplaceAll(ReplaceAll(ReplaceAll(u1, <<"/">>, <<"_">>), <<"?">>, <<"_">>), <<"&">>, <<"_">>)
      filename == ReplaceAll(u2, <<":">>, <<"_">>)
  IN IF Len(filename) > NameLimit
       THEN BeforeFirst(filename, "_") \o <<"_">> \o md5_hexdigest(url) \o HtmlSuffix
       ELSE filename \o HtmlSuffix

(***************************************************************************)
(* Text files.  open(path, "w", encoding="utf-8") creates the file empty;  *)
(* write(text) turns every "\n" into os.linesep and encodes the text as    *)
(* UTF-8, or raises UnicodeEncodeError and writes nothing when a character *)
(* (a lone surrogate) cannot be encoded.  A file holds bytes: an ASCII     *)
(* character is its own byte, "U+00E9" is the two bytes 0xC3 0xA9.         *)
(***************************************************************************)
LF == "LF"
CR == "CR"
EAcute == "U+00E9"
LoneSurrogate == "U+D800"

\* os.linesep of the platforms the server runs on
Lineseps == {<<LF>>, <<CR, LF>>}

Utf8Bytes(c) == IF c = EAcute THEN <<"0xC3", "0xA9">> ELSE <<c>>

RECURSIVE TextBytes(_, _)
TextBytes(text, linesep) ==
  IF text = <<>> THEN <<>>
  ELSE (IF text[1] = LF THEN linesep ELSE Utf8Bytes(text[1])) \o TextBytes(Tail(text), linesep)

\* f.write(text) on a file opened for writing in text mode
TextWrite(text, linesep) ==
  IF \E k \in 1..Len(text) : text[k] = LoneSurrogate
    THEN [ok |-> FALSE, bytes |-> <<>>]
    ELSE [ok |-> TRUE, bytes |-> TextBytes(text, linesep)]

RECURSIVE TextRead(_)
\* open(path, "r", encoding="utf-8").read(): the bytes decoded, with "\r\n"
\* and "\r" read as "\n" (universal newlines)
TextRead(bytes) ==
  IF bytes = <<>> THEN <<>>
  ELSE IF Len(bytes) >= 2 /\ SubSeq(bytes, 1, 2) = <<"0xC3", "0xA9">>
    THEN <<EAcute>> \o TextRead(SubSeq(bytes, 3, Len(bytes)))
  ELSE IF Len(bytes) >= 2 /\ SubSeq(bytes, 1, 2) = <<CR, LF>>
    THEN <<LF>> \o TextRead(SubSeq(bytes, 3, Len(bytes)))
  ELSE IF bytes[1] = CR
    THEN <<LF>> \o TextRead(Tail(bytes))
  ELSE <<bytes[1]>> \o TextRead(Tail(bytes))

\* the longest file name the file system takes (NAME_MAX): open() raises
\* OSError "File name too long" for a longer one
NameMax == 255

\* a file of a directory: a directory is a set of [name, content], content
\* being the bytes of the file
WriteFile(dir, name, content) ==
  {f \in dir : f.name # name} \cup {[name |-> name, content |-> content]}

\* a page entry that is no dict: None, or a string
PyStr(s) == [tag |-> "str", v |-> s]
IsPyNull(v) == "tag" \in DOMAIN v /\ v.tag = "null"
IsPyStr(v) == "tag" \in DOMAIN v /\ v.tag = "str"

\* "p in s" for strings
Contains(s, p) == \E k \in 1..(Len(s) - Len(p) + 1) : SubSeq(s, k, k + Len(p) - 1) = p

\* faulty variant: a page counts only when its metadata came along
HasMarkupAndMetadata(page) == "html" \in DOMAIN page /\ "metadata" \in DOMAIN page

\* "if 'html' not in page_data: continue", page_data being a dict
HasMarkup(page) == "html" \in DOMAIN page

\* the state of _process_crawlhtml_results: the directory, len(file_paths),
\* whether an exception left the function, and the (url, file name) pairs
\* of the pages a file name was chosen for so far
NoFiles == [dir |-> {}, count |-> 0, raised |-> FALSE, log |-> <<>>]

RECURSIVE CrawlPages(_, _, _, _)
\* the loop of _process_crawlhtml_results over data[i..]
CrawlPages(data, i, out, linesep) ==
  IF i > Len(data) THEN out
  ELSE LET page == data[i] IN
    \* 'html' not in None: TypeError
    IF IsPyNull(page) THEN [out EXCEPT !.raised = TRUE]
    \* a string: 'html' is looked for in its text, then str has no .get
    ELSE IF IsPyStr(page)
      THEN IF Contains(page.v, <<"h", "t", "m", "l">>)
             THEN [out EXCEPT !.raised = TRUE]
             ELSE CrawlPages(data, i + 1, out, linesep)
    ELSE IF ~HasMarkup(page) THEN CrawlPages(data, i + 1, out, linesep)
    \* page_data.get("metadata", {}) is None: None has no .get
    ELSE IF "metadata" \in DOMAIN page /\ IsPyNull(page.metadata)
      THEN [out EXCEPT !.raised = TRUE]
    ELSE LET url == IF "metadata" \in DOMAIN page /\ "url" \in DOMAIN page.metadata
                      THEN page.metadata.url
                      ELSE PagePrefix \o <<Digits[i]>>
             name == CrawlFileName(url)
             w == TextWrite(page.html, linesep)
             named == [out EXCEPT !.log = Append(@, [url |-> url, name |-> name])]
         IN IF Len(name) > NameMax
              THEN [named EXCEPT !.raised = TRUE]
            ELSE IF ~w.ok
              THEN [named EXCEPT !.dir = WriteFile(@, name, <<>>), !.raised = TRUE]
              ELSE CrawlPages(data, i + 1,
                              [named EXCEPT !.dir = WriteFile(@, name, w.bytes),
                                            !.count = @ + 1],
                              linesep)

\* _process_crawlhtml_results on an empty output_dir.  A list is a sequence;
\* every "data" of the payloads explored is a list.
process_crawlhtml_results(crawl_result, linesep) ==
  IF "data" \in DOMAIN crawl_result
    THEN CrawlPages(crawl_result.data, 1, NoFiles, linesep)
    ELSE NoFiles

\* faulty variant: the text is taken only when the processed URLs came along
HasTextAndUrls(result) ==
  /\ "data" \in DOMAIN result
  /\ "llmsfulltxt" \in DOMAIN result.data
  /\ "processedUrls" \in DOMAIN result.data

\* if "data" in result and "llmsfulltxt" in result["data"]
HasText(result) == "data" \in DOMAIN result /\ "llmsfulltxt" \in DOMAIN result.data

\* _process_llmtxt_results on an empty output_dir
process_llmtxt_results(result, linesep) ==
  IF HasText(result)
    THEN LET w == TextWrite(result.data.llmsfulltxt, linesep)
         IN IF w.ok
              THEN [NoFiles EXCEPT !.dir = WriteFile(@, LlmFileName, w.bytes), !.count = 1]
              ELSE [NoFiles EXCEPT !.dir = WriteFile(@, LlmFileName, <<>>), !.raised = TRUE]
    ELSE NoFiles

(***************************************************************************)
(* Object Storage Uploader: the files of `dir`, the upload call raising    *)
(* for the files named in `failing`.                                       *)
(***************************************************************************)
RECURSIVE TotalBytes(_)
TotalBytes(files) ==
  IF files = {} THEN 0
  ELSE LET f == CHOOSE x \in files : TRUE IN Len(f.content) + TotalBytes(files \ {f})

\* faulty variant: the first failure ends the walk
RestAfterFailureNone(rest) == {}

\* "except Exception as e: print(...); stats['failed_files'] += 1": the loop
\* goes on with the files that are left
RestAfterFailure(rest) == rest

RECURSIVE UploadFiles(_, _, _)
\* the loops over os.walk(local_dir) with `files` left to visit; `attempted`
\* lists the upload_file calls made so far
UploadFiles(files, failing, stats) ==
  IF files = {} THEN stats
  ELSE LET f == CHOOSE x \in files : TRUE
           tried == [stats EXCEPT !.attempted = Append(@, f.name)]
       IN IF f.name \in failing
            THEN UploadFiles(RestAfterFailure(files \ {f}), failing,
                             [tried EXCEPT !.failed_files = @ + 1])
            ELSE UploadFiles(files \ {f}, failing,
                             [tried EXCEPT !.uploaded_files = @ + 1,
                                           !.total_bytes = @ + Len(f.content)])

\* _upload_directory_to_s3: client_ok tells whether boto3.client(...) returned
\* a client; it raises otherwise, outside the try of the loop
upload_directory_to_s3(dir, client_ok, failing) ==
  IF ~client_ok
    THEN [raised |-> TRUE]
    ELSE LET w == UploadFiles(dir, failing, [uploaded_files |-> 0, failed_files |-> 0,
                                             total_bytes |-> 0, attempted |-> <<>>])
         IN [raised |-> FALSE,
             stats |-> [uploaded_files |-> w.uploaded_files, failed_files |-> w.failed_files,
                        total_bytes |-> w.total_bytes],
             attempted |-> w.attempted]


(***************************************************************************)
(* Decisions of the code that the actions below share.                     *)
(***************************************************************************)
\* faulty variant: the orchestrator relies on the launcher's credential check
OrchestratorAssumesKey(key) == TRUE

\* wait_for_job_completion: "if not api_key: return {error}"
OrchestratorHasKey(key) == key

\* faulty variant: the loop polls again without waiting
SleepForNothing(poll_interval) == 0

\* await asyncio.sleep(poll_interval): the time the coroutine is suspended
SleepFor(poll_interval) == poll_interval

\* faulty variant: any reported status ends the polling
IsCompletedAny(d) == "status" \in DOMAIN d

\* result.get("status") == "completed"
IsCompleted(d) == GetStatus(d, "none") = "completed"

\* faulty variant: the deadline is looked at before the reported status
LeavesLoopInTime(d, elapsed) == IsCompleted(d) /\ elapsed <= Timeout

\* "if result.get('status') == 'completed': break" stands before the
\* deadline check: the elapsed time has no part in it
LeavesLoop(d, elapsed) == IsCompleted(d)

\* faulty variant: the deadline is checked one poll interval late
TimedOutLate(elapsed) == elapsed > Timeout + PollInterval

\* time.time() - start_time > timeout
TimedOut(elapsed) == elapsed > Timeout

\* faulty variant: the upload goes to the caller's prefix itself
FinalS3UriShared(s3_uri, job_id) == s3_uri

\* final_s3_uri = f"{s3_uri}{job_id}/"
FinalS3Uri(s3_uri, job_id) == s3_uri \o job_id \o Slash

\* faulty variant: a task for every start call that was made
SchedulesOnCall(o) == o.called

\* "if 'id' in job_status: ... asyncio.create_task(...)": o is the outcome
\* of invoke_firecrawl_job
Schedules(o) == o.create

(***************************************************************************)
(* The event loop                                                          *)
(***************************************************************************)
Idle == [who |-> "idle", idx |-> 0]
Running(i) == [who |-> "task", idx |-> i]

\* faulty variant: the launcher awaits (yields to the loop) before returning
AfterCreateTaskYields == Idle

\* No await stands between create_task and the launcher's return: the
\* launcher keeps the loop until it has returned.
AfterCreateTask == [who |-> "launcher", idx |-> 0]

NoCall == [pc |-> "none"]

\* One orchestration: the coroutine wait_for_job_completion(ctx, job_id,
\* s3_uri, job_type) with its local variables, and what it has done so far.
NewTask(origin, job_id, s3_uri, job_type) ==
  [origin |-> origin, job_id |-> job_id, s3_uri |-> s3_uri, job_type |-> job_type,
   pc |-> "created", key_at_start |-> FALSE,
   elapsed |-> 0, remaining |-> 0, calls |-> 0, sleeps |-> 0,
   slept_at |-> 0, overslept |-> 0, last_dur |-> 0, last |-> NoResp,
   mat |-> 0, up |-> 0, made |-> 0, scratch |-> FALSE, dir |-> {}, file_count |-> 0,
   prefix |-> <<>>, result |-> NoRecord, ack |-> NoRecord, outcome |-> "none",
   failed_in |-> "none", up_dir |-> {}, up_failing |-> {}, attempted |-> <<>>,
   iters |-> 0, calls_at_done |-> 0, payload |-> NoRecord]

Started == {"poll", "blocked", "deadline", "sleep", "materialize", "upload", "returning"}

\* d units of wall-clock time pass: time.time() - start_time grows for every
\* started orchestration, and a sleeping one gets nearer to its wake-up (or
\* oversleeps, when the loop is blocked past it).
Elapse(ts, d) ==
  [i \in 1..Len(ts) |->
     IF ts[i].pc \in Started
       THEN [ts[i] EXCEPT !.elapsed = @ + d,
                          !.overslept = IF ts[i].pc = "sleep" THEN @ + Max(0, d - ts[i].remaining) ELSE @,
                          !.remaining = Max(0, @ - d)]
       ELSE ts[i]]

Ready(t) == t.pc = "created" \/ (t.pc = "sleep" /\ t.remaining = 0)

NoRun == [pc |-> "idle"]

Init ==
  /\ env_key \in BOOLEAN
  /\ loop = Idle
  /\ nreq = 0
  /\ inv = NoCall
  /\ probe = NoCall
  /\ tasks = <<>>
  /\ scheduled = 0
  /\ acks = 0
  /\ handoff = NoRecord
  /\ uploads = {}
  /\ mrun = NoRun

(***************************************************************************)
(* The environment: FIRECRAWL_API_KEY is set or removed.                   *)
(***************************************************************************)
ChangeEnvironment ==
  /\ loop = Idle
  /\ env_key' = ~env_key
  /\ UNCHANGED <<loop, nreq, inv, probe, tasks, scheduled, acks, handoff, uploads, mrun>>

(***************************************************************************)
(* Launcher: _invoke_firecrawl_job                                         *)
(***************************************************************************)
InvokeFirecrawlJob ==
  /\ loop = Idle
  /\ inv.pc = "none"
  /\ nreq < MaxRequests
  /\ \E u \in Uris, k \in JobTypes, r \in StartResponses, d \in 0..MaxCallDur :
       LET o == invoke_firecrawl_job(env_key, u, k, r)
           aged == Elapse(tasks, d)
           create == Schedules(o)
       IN /\ o.called \/ d = 0
          /\ r = Silent => d = 0
          /\ create => Len(tasks) < MaxTasks
          /\ scheduled' = IF create THEN scheduled + 1 ELSE scheduled
          /\ tasks' = IF create
                        THEN Append(aged, NewTask("launch", o.job_id, o.target, k))
                        ELSE aged
          /\ inv' = [pc |-> IF o.called /\ r = Silent THEN "blocked" ELSE "returning",
                     key |-> env_key, s3_uri |-> u, job_type |-> k,
                     resp |-> r, called |-> o.called,
                     validated |-> IF env_key THEN ensure_valid_s3_uri(u) ELSE NoRecord,
                     created |-> IF create THEN 1 ELSE 0,
                     task |-> IF create THEN Len(tasks) + 1 ELSE 0,
                     result |-> o.result]
  /\ loop' = AfterCreateTask
  /\ nreq' = nreq + 1
  /\ UNCHANGED <<env_key, probe, acks, handoff, uploads, mrun>>

\* "return response": the caller receives the record
InvokeReturn ==
  /\ inv.pc = "returning"
  /\ loop.who \in {"launcher", "idle"}
  /\ inv' = NoCall
  /\ loop' = Idle
  /\ acks' = IF "id" \in DOMAIN inv.result THEN acks + 1 ELSE acks
  /\ tasks' = IF inv.task \in DOMAIN tasks
                THEN [tasks EXCEPT ![inv.task].ack = inv.result]
                ELSE tasks
  /\ UNCHANGED <<env_key, nreq, probe, scheduled, handoff, uploads, mrun>>

(***************************************************************************)
(* Prober: _check_job_status                                               *)
(***************************************************************************)
CheckJobStatus ==
  /\ loop = Idle
  /\ probe.pc = "none"
  /\ nreq < MaxRequests
  /\ \E j \in JobIds, k \in JobTypes, d \in 0..MaxCallDur :
       \E r \in StatusResponses(k) :
         LET o == check_job_status(env_key, j, k, r)
         IN /\ o.called \/ d = 0
            /\ r = Silent => d = 0
            /\ tasks' = Elapse(tasks, d)
            /\ probe' = [pc |-> IF o.called /\ r = Silent THEN "blocked" ELSE "returning",
                         key |-> env_key, job_id |-> j, job_type |-> k,
                         resp |-> r, called |-> o.called, result |-> o.result]
  /\ loop' = [who |-> "prober", idx |-> 0]
  /\ nreq' = nreq + 1
  /\ UNCHANGED <<env_key, inv, scheduled, acks, handoff, uploads, mrun>>

CheckJobStatusReturn ==
  /\ probe.pc = "returning"
  /\ loop.who = "prober"
  /\ probe' = NoCall
  /\ loop' = Idle
  /\ UNCHANGED <<env_key, nreq, inv, tasks, scheduled, acks, handoff, uploads, mrun>>


(***************************************************************************)
(* Orchestrator: wait_for_job_completion                                   *)
(***************************************************************************)
\* A direct call, as wait_for_crawlhtml_completion and the tests make it.
WaitForJobCompletion ==
  /\ loop = Idle
  /\ nreq < MaxRequests
  /\ Len(tasks) < MaxTasks
  /\ \E j \in {<<"j", "1">>}, k \in JobTypes :
       tasks' = Append(tasks, NewTask("direct", j, S3Scheme \o <<"b", "/">>, k))
  /\ nreq' = nreq + 1
  /\ UNCHANGED <<env_key, loop, inv, probe, scheduled, acks, handoff, uploads, mrun>>

\* The loop runs the coroutine for the first time: the credential check,
\* the client, start_time.
TaskStart ==
  \E i \in DOMAIN tasks :
    /\ loop = Idle
    /\ tasks[i].pc = "created"
    /\ tasks' = [tasks EXCEPT ![i] =
         IF OrchestratorHasKey(env_key)
           THEN [@ EXCEPT !.pc = "poll", !.key_at_start = env_key]
           ELSE [@ EXCEPT !.pc = "returning", !.key_at_start = env_key,
                          !.result = MissingKey, !.outcome = "error"]]
    /\ loop' = Running(i)
    /\ UNCHANGED <<env_key, nreq, inv, probe, scheduled, acks, handoff, uploads, mrun>>

\* faulty variant: the outer handler forgets the job id
OrchestratorErrorNoId(t, detail) ==
  [error |-> [msg |-> "Error in wait_for_completion: ", kind |-> t.job_type, detail |-> detail]]

\* faulty variant: the outer handler lets the exception through
OrchestratorRaises(t, detail) == [raised |-> detail]

\* "except Exception as e: return {error: ..., id: job_id}"
OrchestratorError(t, detail) ==
  [error |-> [msg |-> "Error in wait_for_completion: ", kind |-> t.job_type, detail |-> detail],
   id |-> t.job_id]

\* faulty variant: the status is fetched a second time in the iteration
AfterStatusCallTwice(calls) == calls + 2

\* "result = firecrawl.check_crawl_status(job_id)" (or its llmfulltxt
\* counterpart): the one remote call of an iteration
AfterStatusCall(calls) == calls + 1

\* One iteration of the polling loop up to the completion check: the
\* dispatch on job_type and the status call.
TaskPoll ==
  \E i \in DOMAIN tasks :
    /\ loop = Running(i)
    /\ tasks[i].pc = "poll"
    /\ IF ~IsKnownType(tasks[i].job_type)
         THEN tasks' = [tasks EXCEPT ![i] =
                [@ EXCEPT !.pc = "returning", !.outcome = "error", !.iters = @ + 1,
                          !.result = [error |-> [msg |-> "Unknown job type: ",
                                                 kind |-> tasks[i].job_type],
                                      id |-> tasks[i].job_id]]]
         ELSE \E r \in StatusResponses(tasks[i].job_type), d \in 0..MaxCallDur :
                LET aged == Elapse(tasks, d)
                    t == [aged[i] EXCEPT !.calls = AfterStatusCall(@), !.iters = @ + 1,
                                         !.last = r, !.last_dur = d]
                IN /\ r = Silent => d = 0
                   /\ tasks' = [aged EXCEPT ![i] =
                     IF r = Silent
                       THEN [t EXCEPT !.pc = "blocked"]
                     ELSE IF r.tag = "raise"
                       THEN [t EXCEPT !.pc = "returning", !.outcome = "error",
                                      !.failed_in = "poll",
                                      !.result = OrchestratorError(t, "remote call failed")]
                     ELSE IF r.tag = "none"
                       THEN [t EXCEPT !.pc = "returning", !.outcome = "error",
                                      !.failed_in = "poll",
                                      !.result = OrchestratorError(t, "AttributeError")]
                     ELSE IF LeavesLoop(r.d, t.elapsed)
                       THEN [t EXCEPT !.pc = "materialize", !.calls_at_done = t.calls]
                     ELSE [t EXCEPT !.pc = "deadline"]]
    /\ UNCHANGED <<env_key, loop, nreq, inv, probe, scheduled, acks, handoff, uploads, mrun>>

\* The deadline check, then either the timeout record or asyncio.sleep.
TaskDeadline ==
  \E i \in DOMAIN tasks :
    /\ loop = Running(i)
    /\ tasks[i].pc = "deadline"
    /\ IF TimedOut(tasks[i].elapsed)
         THEN /\ tasks' = [tasks EXCEPT ![i] =
                   [@ EXCEPT !.pc = "returning", !.outcome = "timeout",
                             !.result = [id |-> tasks[i].job_id, status |-> "timeout",
                                         error |-> [msg |-> "Timeout waiting for job to complete",
                                                    kind |-> tasks[i].job_type,
                                                    id |-> tasks[i].job_id],
                                         elapsed_time |-> tasks[i].elapsed]]]
              /\ loop' = loop
         ELSE /\ tasks' = [tasks EXCEPT ![i] =
                   [@ EXCEPT !.pc = "sleep", !.remaining = SleepFor(PollInterval), !.sleeps = @ + 1,
                             !.slept_at = tasks[i].elapsed, !.overslept = 0,
                             !.last = NoResp, !.last_dur = 0]]
              /\ loop' = Idle
    /\ UNCHANGED <<env_key, nreq, inv, probe, scheduled, acks, handoff, uploads, mrun>>

\* The sleep is over and the loop resumes the coroutine.
TaskWake ==
  \E i \in DOMAIN tasks :
    /\ loop = Idle
    /\ tasks[i].pc = "sleep"
    /\ tasks[i].remaining = 0
    /\ tasks' = [tasks EXCEPT ![i].pc = "poll"]
    /\ loop' = Running(i)
    /\ UNCHANGED <<env_key, nreq, inv, probe, scheduled, acks, handoff, uploads, mrun>>

\* faulty variant: the directory is removed on the successful path only
ExitTemporaryDirectoryIfDone(t) ==
  IF t.outcome = "completed" THEN [t EXCEPT !.scratch = FALSE, !.dir = {}] ELSE t

\* the end of the "with tempfile.TemporaryDirectory()" block, by a return or
\* by an exception passing through it: the directory and its files are gone
ExitTemporaryDirectory(t) == [t EXCEPT !.scratch = FALSE, !.dir = {}]

\* "with tempfile.TemporaryDirectory()", the job directory and the
\* Materializer of the job's kind; `fault` is an exception out of makedirs
\* or out of the Materializer (open, write).
TaskMaterialize ==
  \E i \in DOMAIN tasks, fault \in BOOLEAN, linesep \in Lineseps :
    /\ loop = Running(i)
    /\ tasks[i].pc = "materialize"
    /\ LET result == tasks[i].last.d
           t == [tasks[i] EXCEPT !.made = @ + 1, !.scratch = TRUE, !.payload = result]
           m == IF t.job_type = "crawlhtml"
                  THEN process_crawlhtml_results(result, linesep)
                  ELSE process_llmtxt_results(result, linesep)
       IN tasks' = [tasks EXCEPT ![i] =
            IF ~IsKnownType(t.job_type)
              THEN ExitTemporaryDirectory(
                     [t EXCEPT !.pc = "returning", !.outcome = "error",
                               !.result = [error |-> [msg |-> "Unknown job type: ", kind |-> t.job_type],
                                           id |-> t.job_id]])
            ELSE IF fault \/ m.raised
              THEN ExitTemporaryDirectory(
                     [t EXCEPT !.pc = "returning", !.outcome = "error", !.mat = @ + 1,
                               !.dir = m.dir, !.failed_in = "materialize",
                               !.result = OrchestratorError(t, "materializer failed")])
            ELSE [t EXCEPT !.pc = "upload", !.mat = @ + 1, !.dir = m.dir, !.file_count = m.count]]
    /\ UNCHANGED <<env_key, loop, nreq, inv, probe, scheduled, acks, handoff, uploads, mrun>>

\* The Uploader on the job directory, the completed record, and the end of
\* the "with" block, which removes the temporary directory.
TaskUpload ==
  \E i \in DOMAIN tasks :
    /\ loop = Running(i)
    /\ tasks[i].pc = "upload"
    /\ \E failing \in SUBSET {f.name : f \in tasks[i].dir}, client_ok \in BOOLEAN,
          d \in 0..MaxCallDur :
         LET aged == Elapse(tasks, d)
             final_s3_uri == FinalS3Uri(aged[i].s3_uri, aged[i].job_id)
             upload == upload_directory_to_s3(aged[i].dir, client_ok, failing)
             t == [aged[i] EXCEPT !.up = @ + 1, !.prefix = final_s3_uri]
             response ==
               [id |-> t.job_id, status |-> "completed", s3_uri |-> final_s3_uri,
                file_count |-> t.file_count,
                uploaded_files |-> upload.stats.uploaded_files,
                failed_uploads |-> upload.stats.failed_files,
                upload_size_bytes |-> upload.stats.total_bytes,
                elapsed_time |-> t.elapsed]
             urls == IF "processedUrls" \in DOMAIN t.last.d.data
                       THEN PyLen(t.last.d.data.processedUrls)
                       ELSE [ok |-> TRUE, n |-> 0]
             uploaded == [t EXCEPT !.up_dir = t.dir, !.up_failing = failing,
                                   !.attempted = upload.attempted]
         IN /\ (client_ok /\ t.dir # {}) \/ d = 0
            /\ uploads' = IF client_ok /\ t.dir # {}
                            THEN uploads \cup {final_s3_uri} ELSE uploads
            /\ client_ok \/ failing = {}
            /\ tasks' = [aged EXCEPT ![i] = ExitTemporaryDirectory(
                 IF upload.raised
                   THEN [t EXCEPT !.pc = "returning", !.outcome = "error",
                                  !.failed_in = "upload",
                                  !.result = OrchestratorError(t, "storage client failed")]
                 ELSE IF t.job_type = "crawlhtml"
                   THEN [uploaded EXCEPT !.pc = "returning", !.outcome = "completed",
                           !.result = [completed_urls |-> GetCompleted(t.last.d),
                                       total_urls |-> GetTotal(t.last.d)] @@ response]
                 ELSE IF "data" \notin DOMAIN t.last.d
                   THEN [uploaded EXCEPT !.pc = "returning", !.outcome = "completed",
                                         !.result = response]
                 ELSE IF ~urls.ok
                   THEN [uploaded EXCEPT !.pc = "returning", !.outcome = "error",
                                         !.failed_in = "assemble",
                                         !.result = OrchestratorError(t, "TypeError")]
                 ELSE [uploaded EXCEPT !.pc = "returning", !.outcome = "completed",
                         !.result = [processed_urls_count |-> urls.n] @@ response])]
    /\ UNCHANGED <<env_key, loop, nreq, inv, probe, scheduled, acks, handoff, mrun>>

\* faulty variant: the record of an orchestration the launcher started is
\* handed on like that of an awaited one
RecordGoesToCallerAlways(t) == TRUE

\* Who receives the record of an orchestration that returns: the caller
\* that awaits it ("return await wait_for_job_completion(...)").  The
\* launcher drops the Task that asyncio.create_task returns, attaches no
\* callback to it and the coroutine logs nothing, so the record of an
\* orchestration it started goes to nobody.
RecordGoesToCaller(t) == t.origin = "direct"

\* The coroutine returns its record and is gone.
TaskReturn ==
  \E i \in DOMAIN tasks :
    /\ loop = Running(i)
    /\ tasks[i].pc = "returning"
    /\ tasks' = SubSeq(tasks, 1, i - 1) \o SubSeq(tasks, i + 1, Len(tasks))
    /\ IF RecordGoesToCaller(tasks[i])
         THEN handoff' = tasks[i].result /\ loop' = [who |-> "caller", idx |-> 0]
         ELSE handoff' = handoff /\ loop' = Idle
    /\ UNCHANGED <<env_key, nreq, inv, probe, scheduled, acks, uploads, mrun>>

\* The caller that awaited the orchestration goes on with the record.
CallerReceives ==
  /\ loop.who = "caller"
  /\ handoff' = NoRecord
  /\ loop' = Idle
  /\ UNCHANGED <<env_key, nreq, inv, probe, tasks, scheduled, acks, uploads, mrun>>

\* Time passes while every coroutine waits.
Tick ==
  /\ loop = Idle
  /\ \A i \in DOMAIN tasks : ~Ready(tasks[i])
  /\ \E i \in DOMAIN tasks : tasks[i].pc = "sleep"
  /\ tasks' = Elapse(tasks, 1)
  /\ UNCHANGED <<env_key, loop, nreq, inv, probe, scheduled, acks, handoff, uploads, mrun>>

Next ==
  \/ ChangeEnvironment
  \/ InvokeFirecrawlJob
  \/ InvokeReturn
  \/ CheckJobStatus
  \/ CheckJobStatusReturn
  \/ WaitForJobCompletion
  \/ TaskStart
  \/ TaskPoll
  \/ TaskDeadline
  \/ TaskWake
  \/ TaskMaterialize
  \/ TaskUpload
  \/ TaskReturn
  \/ CallerReceives
  \/ Tick

Spec == Init /\ [][Next]_vars

\* The event loop runs a coroutine that can run, returns a result that is
\* ready, and time passes.  Nothing is assumed of the callers or of the
\* remote service.
LiveSpec ==
  /\ Spec
  /\ WF_vars(TaskStart) /\ WF_vars(TaskPoll) /\ WF_vars(TaskDeadline)
  /\ WF_vars(TaskWake) /\ WF_vars(TaskMaterialize) /\ WF_vars(TaskUpload)
  /\ WF_vars(TaskReturn) /\ WF_vars(CallerReceives) /\ WF_vars(Tick)
  /\ WF_vars(InvokeReturn) /\ WF_vars(CheckJobStatusReturn)


(***************************************************************************)
(* The Materializers on their own: _process_crawlhtml_results and          *)
(* _process_llmtxt_results are called with a payload and an empty          *)
(* directory, as wait_for_job_completion and the tests call them.          *)
(***************************************************************************)
MaxPages == 3
MaxText == 2

Rep(c, n) == [k \in 1..n |-> c]

\* a host name of 218 characters (DNS allows 253), and a long path
UrlLongHost == <<"h", "t", "t", "p", "s", ":", "/", "/">> \o Rep("x", 218) \o <<"/", "p">>
UrlLongPath == Rep("y", 150) \o <<"/">> \o Rep("z", 60)

PageLongHost == [html |-> <<"x">>, metadata |-> [url |-> UrlLongHost]]
PageLongPath == [html |-> <<"x">>, metadata |-> [url |-> UrlLongPath]]
PageNullMetadata == [html |-> <<"x">>, metadata |-> PyNull]

\* the entries of a "data" list: pages with and without markup, with short
\* and long URLs, and entries that are malformed (None, a string, a page
\* whose metadata is null)
PageEntries ==
  {PageA, PageNoHtml, PageB, PageA2, PageLongHost, PageLongPath,
   PyNull, PyStr(<<"a">>), PageNullMetadata}

CrawlPayloads ==
  {[status |-> "completed"]}
    \cup {[status |-> "completed", data |-> d] :
            d \in UNION {[1..n -> PageEntries] : n \in 0..MaxPages}}

TextChars == {"t", EAcute, LF, CR, LoneSurrogate}

LlmPayloads ==
  {[status |-> "completed"],
   [status |-> "completed", data |-> [processedUrls |-> PyList(<<>>)]]}
    \cup {[status |-> "completed", data |-> [llmsfulltxt |-> t]] :
            t \in UNION {[1..n -> TextChars] : n \in 0..MaxText}}

ProcessCrawlhtmlResults ==
  /\ mrun.pc = "idle"
  /\ \E crawl_result \in CrawlPayloads, linesep \in Lineseps :
       mrun' = [pc |-> "crawlhtml", input |-> crawl_result, linesep |-> linesep,
                out |-> process_crawlhtml_results(crawl_result, linesep)]
  /\ UNCHANGED pipeline

ProcessLlmtxtResults ==
  /\ mrun.pc = "idle"
  /\ \E result \in LlmPayloads, linesep \in Lineseps :
       mrun' = [pc |-> "llmfulltxt", input |-> result, linesep |-> linesep,
                out |-> process_llmtxt_results(result, linesep)]
  /\ UNCHANGED pipeline

\* the caller has the count (or the exception) and calls again
MaterializerReturns ==
  /\ mrun.pc # "idle"
  /\ mrun' = NoRun
  /\ UNCHANGED pipeline

MatNext ==
  \/ ProcessCrawlhtmlResults
  \/ ProcessLlmtxtResults
  \/ MaterializerReturns

MatSpec == Init /\ [][MatNext]_vars

(***************************************************************************)
(* Two orchestrations in one process: two requests of                      *)
(* wait_for_crawlhtml_completion (or two background tasks) for the jobs j1 *)
(* and j2, both created before the event loop runs either.                 *)
(***************************************************************************)
PairInit ==
  /\ env_key = TRUE
  /\ loop = Idle
  /\ nreq = 0
  /\ inv = NoCall
  /\ probe = NoCall
  /\ \E k1, k2 \in KnownTypes :
       tasks = <<NewTask("direct", <<"j", "1">>, S3Scheme \o <<"b", "/">>, k1),
                 NewTask("direct", <<"j", "2">>, S3Scheme \o <<"b", "/">>, k2)>>
  /\ scheduled = 0
  /\ acks = 0
  /\ handoff = NoRecord
  /\ uploads = {}
  /\ mrun = NoRun

PairNext ==
  \/ TaskStart
  \/ TaskPoll
  \/ TaskDeadline
  \/ TaskWake
  \/ TaskMaterialize
  \/ TaskUpload
  \/ TaskReturn
  \/ CallerReceives
  \/ Tick

PairSpec == PairInit /\ [][PairNext]_vars

(***************************************************************************)
(* Claims                                                                  *)
(***************************************************************************)
SuccessFields ==
  {"id", "status", "s3_uri", "message", "completed_urls", "total_urls", "llmfulltxt"}

\* the storage URI with a trailing "/" guaranteed
Norm(u) == IF Len(u) > 0 /\ u[Len(u)] = "/" THEN u ELSE u \o <<"/">>

ValidLocator(u) == Len(u) >= 5 /\ SubSeq(u, 1, 5) = <<"s", "3", ":", "/", "/">>

\* the launch in `inv` got as far as the remote start call and was answered
\* with a record carrying an id
AnsweredWithId ==
  /\ inv.key
  /\ ValidLocator(inv.s3_uri)
  /\ inv.job_type \in {"crawlhtml", "llmfulltxt"}
  /\ inv.resp.tag = "dict"
  /\ "id" \in DOMAIN inv.resp.d

\* C1: the launcher schedules a background task if and only if the remote
\* start call returned a response containing an id: exactly one task for
\* that launch, none when the credential is missing, the URI is invalid, the
\* kind is unknown, the call raises or the response has no id (which then
\* is returned as the error's details); over any sequence of launches the
\* number of tasks created equals the number of launches that returned an id.
C1_TaskIffIdReturned ==
  /\ inv.pc = "returning" =>
       /\ inv.created = (IF AnsweredWithId THEN 1 ELSE 0)
       /\ (inv.created = 1) <=> ("id" \in DOMAIN inv.result)
       /\ inv.created = 1 =>
            /\ inv.task \in DOMAIN tasks
            /\ tasks[inv.task].origin = "launch"
            /\ tasks[inv.task].pc = "created"
       /\ (inv.called /\ inv.resp.tag = "dict" /\ "id" \notin DOMAIN inv.resp.d) =>
            /\ "error" \in DOMAIN inv.result
            /\ "details" \in DOMAIN inv.result
            /\ inv.result.details = inv.resp.d
       /\ scheduled = acks + inv.created
  /\ inv.pc = "none" => scheduled = acks

\* a launch that was answered without an id, after one that returned an id
C1_Witness ==
  /\ inv.pc = "returning"
  /\ acks = 1
  /\ scheduled = 1
  /\ inv.called
  /\ "details" \in DOMAIN inv.result

\* the acknowledgment of a launch answered with `d` for a task `t`
AckFor(t, d) ==
  [id |-> t.job_id,
   status |-> IF "status" \in DOMAIN d THEN d.status ELSE "started",
   s3_uri |-> t.s3_uri \o t.job_id \o <<"/">>,
   message |-> [msg |-> "Firecrawl job started and will be automatically processed when complete",
                kind |-> t.job_type]]

\* C2: a successful launch returns {id, status, s3_uri, message} without
\* awaiting the background task: the orchestration takes no step (so makes
\* no status call) before the launcher has returned, and the acknowledgment
\* is fixed by the launch alone, whatever the orchestration later does.
C2_AckBeforeOrchestration ==
  /\ (inv.pc = "returning" /\ inv.created = 1) =>
       /\ tasks[inv.task].pc = "created"
       /\ tasks[inv.task].calls = 0
       /\ inv.result = AckFor(tasks[inv.task], inv.resp.d)
  /\ \A i \in DOMAIN tasks :
       tasks[i].origin = "launch" =>
         /\ (tasks[i].pc # "created" \/ tasks[i].calls > 0) => tasks[i].ack # NoRecord
         /\ tasks[i].ack # NoRecord =>
              /\ DOMAIN tasks[i].ack = {"id", "status", "s3_uri", "message"}
              /\ \E d \in StartDicts : tasks[i].ack = AckFor(tasks[i], d)

\* an acknowledged job whose orchestration has since timed out
C2_Witness ==
  \E i \in DOMAIN tasks :
    /\ tasks[i].origin = "launch"
    /\ tasks[i].ack # NoRecord
    /\ tasks[i].outcome = "timeout"

\* C3: the acknowledgment's s3_uri is normalize(u) + j + "/" for the URI u
\* the caller gave and the id j the remote issued, and the orchestration
\* scheduled by that launch runs on the same id and kind and uploads to
\* exactly that prefix.
C3_SamePrefix ==
  /\ (inv.pc = "returning" /\ "id" \in DOMAIN inv.result) =>
       /\ inv.result.id = inv.resp.d.id
       /\ inv.result.s3_uri = Norm(inv.s3_uri) \o inv.resp.d.id \o <<"/">>
       /\ inv.task \in DOMAIN tasks
       /\ tasks[inv.task].job_id = inv.resp.d.id
       /\ tasks[inv.task].job_type = inv.job_type
       /\ tasks[inv.task].s3_uri = Norm(inv.s3_uri)
  /\ \A i \in DOMAIN tasks :
       (tasks[i].origin = "launch" /\ tasks[i].ack # NoRecord) =>
         /\ tasks[i].ack.id = tasks[i].job_id
         /\ tasks[i].ack.message.kind = tasks[i].job_type
         /\ tasks[i].ack.s3_uri = tasks[i].s3_uri \o tasks[i].job_id \o <<"/">>
         /\ tasks[i].up > 0 => tasks[i].prefix = tasks[i].ack.s3_uri
         /\ tasks[i].outcome = "completed" => tasks[i].result.s3_uri = tasks[i].ack.s3_uri

\* a launched job whose orchestration has uploaded
C3_Witness ==
  \E i \in DOMAIN tasks :
    /\ tasks[i].origin = "launch"
    /\ tasks[i].up = 1
    /\ tasks[i].prefix = <<"s", "3", ":", "/", "/", "b", "/", "j", "2", "/">>

\* C4: a storage URI that is empty or does not start with "s3://" makes the
\* launcher return an error record (the "Invalid S3 URI" error when the
\* credential is present) with no remote start call and no task scheduled.
C4_InvalidLocator ==
  (inv.pc = "returning" /\ ~ValidLocator(inv.s3_uri)) =>
    /\ DOMAIN inv.result = {"error"}
    /\ inv.key => inv.result.error.msg = "Invalid S3 URI: "
    /\ ~inv.called
    /\ inv.created = 0
    /\ scheduled = acks
    /\ inv.task \notin DOMAIN tasks

\* a launch that would have been acknowledged but for its URI
C4_Witness ==
  /\ inv.pc = "returning"
  /\ inv.key
  /\ inv.s3_uri = <<"b">>
  /\ inv.job_type = "crawlhtml"
  /\ inv.resp.tag = "dict"
  /\ "id" \in DOMAIN inv.resp.d

\* C5: with FIRECRAWL_API_KEY absent the launcher, the prober and the
\* orchestrator each return the missing-credential error record, raising
\* nothing and making no remote call; each checks for itself, so an
\* orchestration started after a successful launch reports the missing
\* credential when it was removed in between.
C5_MissingCredential ==
  /\ (inv.pc = "returning" /\ ~inv.key) =>
       inv.result = MissingKey /\ ~inv.called /\ inv.created = 0
  /\ (probe.pc = "returning" /\ ~probe.key) =>
       probe.result = MissingKey /\ ~probe.called
  /\ \A i \in DOMAIN tasks :
       (tasks[i].pc # "created" /\ ~tasks[i].key_at_start) =>
         /\ tasks[i].pc = "returning"
         /\ tasks[i].result = MissingKey
         /\ tasks[i].calls = 0
         /\ tasks[i].mat = 0
         /\ tasks[i].up = 0

\* an acknowledged launch whose orchestration found the credential gone
C5_Witness ==
  \E i \in DOMAIN tasks :
    /\ tasks[i].origin = "launch"
    /\ tasks[i].ack # NoRecord
    /\ tasks[i].pc = "returning"
    /\ tasks[i].result = MissingKey


UnknownKind(job_type) == job_type \notin {"crawlhtml", "llmfulltxt"}

UnknownKindError(job_type) == [msg |-> "Unknown job type: ", kind |-> job_type]

\* C6 as stated: for a kind that is neither "crawlhtml" nor "llmfulltxt" the
\* launcher, the prober and the orchestrator each return the "Unknown job
\* type" error record; the launcher makes no start call and schedules no
\* task, the orchestrator neither materializes nor uploads.
C6_AlwaysUnknownJobType ==
  /\ (inv.pc = "returning" /\ UnknownKind(inv.job_type)) =>
       /\ inv.result = [error |-> UnknownKindError(inv.job_type)]
       /\ ~inv.called
       /\ inv.created = 0
  /\ (probe.pc = "returning" /\ UnknownKind(probe.job_type)) =>
       /\ probe.result = [error |-> UnknownKindError(probe.job_type)]
       /\ ~probe.called
  /\ \A i \in DOMAIN tasks :
       (tasks[i].pc = "returning" /\ UnknownKind(tasks[i].job_type)) =>
         /\ tasks[i].result = [error |-> UnknownKindError(tasks[i].job_type), id |-> tasks[i].job_id]
         /\ tasks[i].mat = 0
         /\ tasks[i].up = 0

\* C6 (amended): for a kind that is neither "crawlhtml" nor "llmfulltxt" each
\* of the three returns a record with an error and raises nothing, the
\* launcher makes no start call and schedules no task, the orchestrator makes
\* no status call and neither materializes nor uploads; the error is
\* "Unknown job type" when the checks that come first pass (the credential
\* is present and, for the launcher, the URI is valid), and otherwise the
\* error of the check that failed.
C6_UnknownKind ==
  /\ (inv.pc = "returning" /\ UnknownKind(inv.job_type)) =>
       /\ ~inv.called
       /\ inv.created = 0
       /\ inv.result =
            IF ~inv.key THEN MissingKey
            ELSE IF ~ValidLocator(inv.s3_uri)
              THEN [error |-> [msg |-> "Invalid S3 URI: ",
                               detail |-> IF inv.s3_uri = <<>>
                                            THEN "S3 URI is required"
                                            ELSE "S3 URI must start with 's3://'"]]
            ELSE [error |-> UnknownKindError(inv.job_type)]
  /\ (probe.pc = "returning" /\ UnknownKind(probe.job_type)) =>
       /\ ~probe.called
       /\ probe.result =
            IF ~probe.key THEN MissingKey ELSE [error |-> UnknownKindError(probe.job_type)]
  /\ \A i \in DOMAIN tasks :
       UnknownKind(tasks[i].job_type) =>
         /\ tasks[i].origin = "direct"
         /\ tasks[i].pc \in {"created", "poll", "returning"}
         /\ tasks[i].calls = 0
         /\ tasks[i].mat = 0
         /\ tasks[i].up = 0
         /\ tasks[i].made = 0
         /\ tasks[i].pc = "returning" =>
              tasks[i].result =
                IF ~tasks[i].key_at_start THEN MissingKey
                ELSE [error |-> UnknownKindError(tasks[i].job_type), id |-> tasks[i].job_id]

\* an orchestration of an unknown kind that has returned "Unknown job type"
C6_Witness ==
  \E i \in DOMAIN tasks :
    /\ tasks[i].job_type = "invalid_type"
    /\ tasks[i].pc = "returning"
    /\ tasks[i].key_at_start
    /\ "id" \in DOMAIN tasks[i].result

\* the record a launcher or prober call returned reports a failure properly
PlainRecord(call, success) ==
  /\ call.result # NoRecord
  /\ "raised" \notin DOMAIN call.result
  /\ "error" \in DOMAIN call.result => DOMAIN call.result \cap SuccessFields = {}
  /\ "error" \notin DOMAIN call.result => DOMAIN call.result \in success
  /\ (call.called /\ call.resp.tag \in {"raise", "none"}) => "error" \in DOMAIN call.result

\* C7: the launcher and the prober never raise to their caller: whatever the
\* remote call does (throws, returns something that is no record, returns a
\* record without the expected fields) each returns a plain record, and a
\* failure is a record with an "error" field and no success field.
C7_NeverRaises ==
  /\ inv.pc = "returning" =>
       PlainRecord(inv, {{"id", "status", "s3_uri", "message"}})
  /\ probe.pc = "returning" =>
       PlainRecord(probe, {{"id", "status", "completed_urls", "total_urls"},
                           {"id", "status", "llmfulltxt"},
                           {"id", "status"}})

\* a launch whose start call threw
C7_Witness ==
  /\ inv.pc = "returning"
  /\ inv.called
  /\ inv.resp.tag = "raise"
  /\ "error" \in DOMAIN inv.result

ReportedCompleted(r) ==
  r.tag = "dict" /\ "status" \in DOMAIN r.d /\ r.d.status = "completed"

\* C8: the Materializer and the Uploader run only after a status call has
\* reported "completed", the Materializer first, each at most once in an
\* orchestration; an orchestration that timed out has run neither, has made
\* no scratch directory, and returns a record whose status is not
\* "completed" and that carries the error and the job id.
C8_MaterializeThenUpload ==
  \A i \in DOMAIN tasks :
    LET t == tasks[i] IN
    /\ t.mat <= 1 /\ t.up <= 1 /\ t.made <= 1
    /\ t.up = 1 => t.mat = 1
    /\ t.mat = 1 => t.made = 1
    /\ t.scratch => t.made = 1
    /\ t.pc = "upload" => (t.mat = 1 /\ t.up = 0)
    /\ (t.made = 1 \/ t.pc \in {"materialize", "upload"}) => ReportedCompleted(t.last)
    /\ t.outcome = "completed" => (t.mat = 1 /\ t.up = 1)
    /\ t.outcome = "timeout" =>
         /\ t.mat = 0 /\ t.up = 0 /\ t.made = 0 /\ ~t.scratch
         /\ "status" \in DOMAIN t.result /\ t.result.status # "completed"
         /\ "error" \in DOMAIN t.result
         /\ t.result.id = t.job_id

\* an orchestration that slept, then saw "completed", materialized and uploaded
C8_Witness ==
  \E i \in DOMAIN tasks :
    /\ tasks[i].sleeps >= 1
    /\ tasks[i].mat = 1
    /\ tasks[i].up = 1
    /\ tasks[i].outcome = "completed"

TimeoutRecordShape(t) ==
  /\ t.pc = "returning"
  /\ DOMAIN t.result = {"id", "status", "error", "elapsed_time"}
  /\ t.result.status = "timeout"
  /\ t.result.id = t.job_id
  /\ t.result.error.msg = "Timeout waiting for job to complete"
  /\ t.result.elapsed_time = t.elapsed

Polling(i) ==
  i \in DOMAIN tasks /\ tasks[i].pc \in {"poll", "blocked", "deadline", "sleep"}

\* C10: the polling loop of wait_for_job_completion always terminates:
\* whatever the remote service does, slow or silent included, an
\* orchestration that is polling eventually is polling no more.
C10_PollingTerminates ==
  \A i \in 1..MaxTasks : Polling(i) ~> ~Polling(i)


\* C11: the scratch directory of an orchestration exists only between the
\* start of materialization and the end of upload: on every way out of
\* wait_for_job_completion (completed record, unknown kind, exception in
\* materialization, in upload or after it) the temporary directory and its
\* files are gone when the orchestration returns.
C11_ScratchRemoved ==
  \A i \in DOMAIN tasks :
    LET t == tasks[i] IN
    /\ t.scratch => (t.pc = "upload" /\ t.made = 1)
    /\ t.dir # {} => t.scratch
    /\ t.pc = "upload" => t.scratch
    /\ t.pc = "returning" => (~t.scratch /\ t.dir = {})

\* an orchestration that wrote files, uploaded them, failed while assembling
\* its record and is about to return
C11_Witness ==
  \E i \in DOMAIN tasks :
    /\ tasks[i].pc = "returning"
    /\ tasks[i].failed_in = "assemble"
    /\ tasks[i].up_dir # {}
    /\ ~tasks[i].scratch

\* C12: wait_for_job_completion never raises: an exception at any stage (a
\* status call, materialization, upload, record assembly) becomes a record
\* with an error and the job id, and the orchestration is then over: no
\* further status call (the call that raised is the last one, it is not
\* retried) and no later stage.
C12_OrchestratorNeverRaises ==
  \A i \in DOMAIN tasks :
    LET t == tasks[i] IN
    /\ t.pc = "returning" => (t.result # NoRecord /\ "raised" \notin DOMAIN t.result)
    /\ t.pc # "returning" => (t.result = NoRecord /\ t.failed_in = "none")
    /\ t.failed_in # "none" =>
         /\ t.outcome = "error"
         /\ DOMAIN t.result = {"error", "id"}
         /\ t.result.id = t.job_id
         /\ t.result.error.msg = "Error in wait_for_completion: "
    /\ t.failed_in = "poll" =>
         (t.last.tag \in {"raise", "none"} /\ t.made = 0 /\ t.mat = 0 /\ t.up = 0)
    /\ t.failed_in = "materialize" => (t.mat = 1 /\ t.up = 0)
    /\ t.failed_in = "upload" => (t.mat = 1 /\ t.up = 1 /\ t.attempted = <<>>)
    /\ t.failed_in = "assemble" => (t.mat = 1 /\ t.up = 1)

\* a status call that raised after the orchestration had already slept once
C12_Witness ==
  \E i \in DOMAIN tasks :
    /\ tasks[i].failed_in = "poll"
    /\ tasks[i].last.tag = "raise"
    /\ tasks[i].sleeps >= 1
    /\ tasks[i].calls = tasks[i].sleeps + 1


CompletedFields ==
  {"id", "status", "s3_uri", "file_count", "uploaded_files", "failed_uploads",
   "upload_size_bytes", "elapsed_time"}

KindCounters(job_type) ==
  IF job_type = "crawlhtml" THEN {"completed_urls", "total_urls"} ELSE {"processed_urls_count"}

\* C13 as stated: every record wait_for_job_completion returns is a completed
\* record (status "completed", the prefix, file_count, uploaded_files,
\* failed_uploads, upload_size_bytes, the counters of the kind, elapsed_time)
\* or a failure record that carries a status, an error and the job id.
C13_TwoShapes ==
  \A i \in DOMAIN tasks :
    tasks[i].pc = "returning" =>
      LET r == tasks[i].result IN
      \/ /\ (CompletedFields \cup KindCounters(tasks[i].job_type)) \subseteq DOMAIN r
         /\ r.status = "completed"
      \/ /\ {"status", "error", "id"} \subseteq DOMAIN r
         /\ r.status # "completed"
         /\ r.id = tasks[i].job_id

\* C13 (amended): every record wait_for_job_completion returns has one of
\* these shapes: a completed record (id, status "completed", s3_uri,
\* file_count, uploaded_files, failed_uploads, upload_size_bytes,
\* elapsed_time, and completed_urls and total_urls for crawlhtml or
\* processed_urls_count for llmfulltxt when the status payload has "data");
\* a timeout record (id, status "timeout", error, elapsed_time); an error
\* record with an error and the id and no status (an exception, an unknown
\* kind); or, when the credential is absent, a record with the error only.
C13_RecordShapes ==
  \A i \in DOMAIN tasks :
    LET t == tasks[i]
        r == t.result
    IN t.pc = "returning" =>
      /\ t.outcome \in {"completed", "timeout", "error"}
      /\ t.outcome = "completed" =>
           /\ r.status = "completed"
           /\ DOMAIN r =
                CompletedFields \cup
                  (IF t.job_type = "crawlhtml" \/ "data" \in DOMAIN t.last.d
                     THEN KindCounters(t.job_type) ELSE {})
      /\ t.outcome = "timeout" =>
           (DOMAIN r = {"id", "status", "error", "elapsed_time"} /\ r.status = "timeout")
      /\ t.outcome = "error" =>
           IF t.key_at_start
             THEN DOMAIN r = {"error", "id"} /\ r.id = t.job_id
             ELSE r = MissingKey
      /\ "id" \in DOMAIN r => r.id = t.job_id

\* an orchestration about to return the record of a materializer exception
C13_Witness ==
  \E i \in DOMAIN tasks :
    /\ tasks[i].pc = "returning"
    /\ tasks[i].failed_in = "materialize"
    /\ "status" \notin DOMAIN tasks[i].result

\* C14: when the background orchestration of a job started through the
\* launcher terminates (completed, timed out or failed), its Completion
\* Record is handed to someone -- retrievable or logged -- and not dropped.
C14_RecordKept ==
  [][\A i \in DOMAIN tasks :
       (tasks[i].origin = "launch" /\ tasks[i].pc = "returning" /\ Len(tasks') < Len(tasks))
         => handoff' = tasks[i].result]_vars


Names(dir) == {f.name : f \in dir}
Range(seq) == {seq[j] : j \in 1..Len(seq)}

\* the Uploader was run on the directory and returned its counters
UploaderReturned(t) == t.up = 1 /\ t.failed_in # "upload"

\* C15: _upload_directory_to_s3 on a directory of N files of which the
\* upload call fails for exactly k attempts every file exactly once (a
\* failure neither ends the walk nor is retried) and returns
\* uploaded_files = N - k, failed_files = k and total_bytes = the sizes of
\* the N - k files that succeeded, so uploaded_files + failed_files = N.
C15_UploadCounters ==
  \A i \in DOMAIN tasks :
    LET t == tasks[i]
        N == Cardinality(t.up_dir)
        failed == {f \in t.up_dir : f.name \in t.up_failing}
        k == Cardinality(failed)
    IN UploaderReturned(t) =>
      /\ Len(t.attempted) = N
      /\ Range(t.attempted) = Names(t.up_dir)
      /\ Cardinality(Range(t.attempted)) = Len(t.attempted)
      /\ t.outcome = "completed" =>
           /\ t.result.uploaded_files = N - k
           /\ t.result.failed_uploads = k
           /\ t.result.upload_size_bytes = TotalBytes(t.up_dir \ failed)
           /\ t.result.uploaded_files + t.result.failed_uploads = N

\* two files, the upload of the first one visited failed, the second went on
C15_Witness ==
  \E i \in DOMAIN tasks :
    /\ tasks[i].outcome = "completed"
    /\ Cardinality(tasks[i].up_dir) = 2
    /\ Len(tasks[i].attempted) = 2
    /\ tasks[i].attempted[1] \in tasks[i].up_failing
    /\ tasks[i].attempted[2] \notin tasks[i].up_failing
    /\ tasks[i].result.uploaded_files = 1

\* C16: _upload_directory_to_s3 never raises: whatever the directory and the
\* storage backend, an orchestration that has run it has received the
\* three-counter record from it.
C16_UploaderNeverRaises ==
  \A i \in DOMAIN tasks : tasks[i].up = 1 => tasks[i].failed_in # "upload"


\* C18: _ensure_valid_s3_uri fails (ValueError) exactly when its input is
\* empty or does not start with "s3://"; otherwise it returns the input
\* unchanged when it ends with "/" and with exactly one "/" appended when it
\* does not; validating a URI it returned gives that URI back.
C18_Validator ==
  (inv.pc = "returning" /\ inv.key) =>
    LET u == inv.s3_uri
        v == inv.validated
        scheme == Len(u) >= 5 /\ <<u[1], u[2], u[3], u[4], u[5]>> = <<"s", "3", ":", "/", "/">>
    IN /\ v.ok <=> (u # <<>> /\ scheme)
       /\ ~v.ok => inv.result = [error |-> [msg |-> "Invalid S3 URI: ", detail |-> v.err]]
       /\ (v.ok /\ u[Len(u)] = "/") => v.val = u
       /\ (v.ok /\ u[Len(u)] # "/") => v.val = Append(u, "/")
       /\ v.ok => ensure_valid_s3_uri(v.val) = [ok |-> TRUE, val |-> v.val]

\* the launcher validated "s3://b" and got "s3://b/"
C18_Witness ==
  /\ inv.pc = "returning"
  /\ inv.key
  /\ inv.s3_uri = <<"s", "3", ":", "/", "/", "b">>
  /\ inv.validated = [ok |-> TRUE, val |-> <<"s", "3", ":", "/", "/", "b", "/">>]


\* the number of files the Materializer reports for a status payload
ExpectedFileCount(t) ==
  IF "data" \notin DOMAIN t.last.d THEN 0
  ELSE IF t.job_type = "crawlhtml"
    THEN Cardinality({j \in 1..Len(t.last.d.data) : "html" \in DOMAIN t.last.d.data[j]})
  ELSE IF "llmsfulltxt" \in DOMAIN t.last.d.data THEN 1 ELSE 0

UploaderCountersIn(t) ==
  LET ok == {f \in t.up_dir : f.name \notin t.up_failing} IN
  /\ t.result.uploaded_files = Cardinality(ok)
  /\ t.result.failed_uploads = Cardinality(t.up_dir \ ok)
  /\ t.result.upload_size_bytes = TotalBytes(ok)
  /\ t.result.s3_uri = t.s3_uri \o t.job_id \o <<"/">>
  /\ t.result.file_count = ExpectedFileCount(t)

\* C19 as stated: in every completed record file_count is the Materializer's
\* count, uploaded_files, failed_uploads and upload_size_bytes are the
\* Uploader's counters, s3_uri is s3_uri + job_id + "/", and the counters of
\* the kind are present: completed_urls and total_urls for crawlhtml, the
\* processed-URL count for llmfulltxt.
C19_CountersPresent ==
  \A i \in DOMAIN tasks :
    tasks[i].outcome = "completed" =>
      /\ UploaderCountersIn(tasks[i])
      /\ KindCounters(tasks[i].job_type) \subseteq DOMAIN tasks[i].result

\* C19 (amended): in every completed record file_count is the Materializer's
\* count, uploaded_files, failed_uploads and upload_size_bytes are the
\* Uploader's counters, s3_uri is s3_uri + job_id + "/"; a crawlhtml record
\* has completed_urls and total_urls (0 where the payload has none); an
\* llmfulltxt record has processed_urls_count, the length of
\* data.processedUrls (0 without it), exactly when the status payload has
\* "data".
C19_CompletedRecord ==
  \A i \in DOMAIN tasks :
    LET t == tasks[i]
        d == t.last.d
    IN t.outcome = "completed" =>
      /\ UploaderCountersIn(t)
      /\ t.job_type = "crawlhtml" =>
           /\ t.result.completed_urls = (IF "completed" \in DOMAIN d THEN d.completed ELSE 0)
           /\ t.result.total_urls = (IF "total" \in DOMAIN d THEN d.total ELSE 0)
      /\ t.job_type = "llmfulltxt" =>
           /\ "processed_urls_count" \in DOMAIN t.result <=> "data" \in DOMAIN d
           /\ "data" \in DOMAIN d =>
                t.result.processed_urls_count =
                  (IF "processedUrls" \in DOMAIN d.data THEN Len(d.data.processedUrls.v) ELSE 0)

\* a completed llmfulltxt record that counts the one processed URL
C19_Witness ==
  \E i \in DOMAIN tasks :
    /\ tasks[i].outcome = "completed"
    /\ tasks[i].job_type = "llmfulltxt"
    /\ "processed_urls_count" \in DOMAIN tasks[i].result
    /\ tasks[i].result.processed_urls_count = 1
    /\ tasks[i].result.file_count = 1

\* C20: when "completed" is first reported at the k-th status call, no
\* earlier deadline check having timed out, the polling loop has made
\* exactly k status calls and k - 1 waits of poll_interval, one between
\* consecutive calls, and the job goes on as completed with
\* elapsed_time >= (k - 1) * poll_interval.
C20_CallsAndWaits ==
  \A i \in DOMAIN tasks :
    LET t == tasks[i] IN
    /\ t.pc \in {"poll", "sleep"} => t.calls = t.sleeps
    /\ t.pc \in {"deadline", "blocked"} => t.calls = t.sleeps + 1
    /\ (t.pc \in {"materialize", "upload"} \/ t.made = 1) =>
         /\ t.calls = t.sleeps + 1
         /\ t.elapsed >= t.sleeps * PollInterval
    /\ t.outcome = "completed" => t.result.elapsed_time >= (t.calls - 1) * PollInterval

\* [running, running, completed]: 3 calls, 2 waits
C20_Witness ==
  \E i \in DOMAIN tasks :
    /\ tasks[i].outcome = "completed"
    /\ tasks[i].calls = 3
    /\ tasks[i].sleeps = 2
    /\ tasks[i].result.elapsed_time >= 2 * PollInterval


\* C17: the storage prefix target_uri + id + "/" of a job is the target of
\* exactly one upload operation, and no two jobs upload to the same prefix:
\* an orchestration never uploads files to a prefix that files were
\* uploaded to before.
C17_OneUploadPerPrefix ==
  [][\A i \in DOMAIN tasks :
       (/\ tasks[i].pc = "upload"
        /\ i \in DOMAIN tasks'
        /\ tasks'[i].pc = "returning"
        /\ tasks'[i].up_dir # {})
         => tasks'[i].prefix \notin uploads]_vars

\* C21: in a polling iteration the completion check comes before the
\* deadline check.  A status call that reported "completed" leads to the
\* completed path (materialization, upload, a record that is no timeout
\* record) whatever the elapsed time; the deadline is looked at only after
\* a status that is not "completed"; a timeout record follows such a status
\* directly and its elapsed_time is greater than the timeout.
C21_CompletionBeforeDeadline ==
  \A i \in DOMAIN tasks :
    LET t == tasks[i] IN
    /\ ReportedCompleted(t.last) =>
         /\ t.pc \in {"materialize", "upload", "returning"}
         /\ t.outcome # "timeout"
         /\ t.made = 1 \/ t.pc = "materialize"
    /\ t.pc = "deadline" => (t.last.tag = "dict" /\ ~ReportedCompleted(t.last))
    /\ t.outcome = "timeout" =>
         /\ t.last.tag = "dict" /\ ~ReportedCompleted(t.last)
         /\ t.result.elapsed_time > Timeout

\* "completed" was reported after the deadline had passed, and the
\* orchestration went on to the upload
C21_Witness ==
  \E i \in DOMAIN tasks :
    /\ ReportedCompleted(tasks[i].last)
    /\ tasks[i].pc = "upload"
    /\ tasks[i].mat = 1
    /\ tasks[i].elapsed - tasks[i].last_dur > Timeout

\* C22 as stated: an orchestration makes exactly one remote status call in
\* each polling iteration and none after "completed" was observed, the
\* payload that is materialized is the response of the call that reported
\* "completed", and each status query through _check_job_status makes
\* exactly one remote status call.
C22_OneCallEach ==
  /\ \A i \in DOMAIN tasks :
       LET t == tasks[i] IN
       /\ t.calls = t.iters
       /\ t.made = 1 => (t.calls = t.calls_at_done /\ t.payload = t.last.d)
  /\ probe.pc # "none" => probe.called

\* C22 (amended): a polling iteration of a known kind makes exactly one
\* remote status call, an iteration of an unknown kind makes none and ends
\* the orchestration; no remote call is made after "completed" was
\* observed: the payload that is materialized is the response of the very
\* status call that reported "completed", and materialization and upload
\* call the crawl service not at all.  A status query through
\* _check_job_status makes one remote status call when the credential is
\* set and the kind is known, and none otherwise.
C22_OneCallPerIteration ==
  /\ \A i \in DOMAIN tasks :
       LET t == tasks[i] IN
       /\ IsKnownType(t.job_type) => t.calls = t.iters
       /\ ~IsKnownType(t.job_type) => (t.calls = 0 /\ t.iters <= 1)
       /\ t.iters = 1 /\ ~IsKnownType(t.job_type) => t.pc = "returning"
       /\ t.pc \in {"materialize", "upload"} \/ t.made = 1 =>
            /\ t.calls = t.calls_at_done
            /\ ReportedCompleted(t.last)
       /\ t.made = 1 => t.payload = t.last.d
  /\ probe.pc # "none" =>
       (probe.called <=> (probe.key /\ IsKnownType(probe.job_type)))

\* an orchestration that made three status calls in three iterations and
\* materialized and uploaded the payload of the third
C22_Witness ==
  \E i \in DOMAIN tasks :
    /\ tasks[i].iters = 3
    /\ tasks[i].calls = 3
    /\ tasks[i].calls_at_done = 3
    /\ tasks[i].up = 1
    /\ tasks[i].payload = tasks[i].last.d
    /\ tasks[i].payload = CrawlDone

\* a page entry is well formed: a record whose metadata, when it has one, is
\* a record too
WellFormedPage(page) ==
  /\ "tag" \notin DOMAIN page
  /\ "metadata" \in DOMAIN page => "tag" \notin DOMAIN page.metadata

WellFormedData(data) == \A k \in DOMAIN data : WellFormedPage(data[k])

\* the entries of a data list that have markup content
WithContent(data) == {k \in DOMAIN data : "html" \in DOMAIN data[k]}

\* C23: _process_crawlhtml_results returns the number of page entries of
\* the payload's "data" list that have markup content ("html"): entries
\* without it are skipped without error and do not count, a payload with no
\* "data" yields no file and 0, and two entries with content and one
\* without yield exactly two files.
C23_CountsPagesWithContent ==
  mrun.pc = "crawlhtml" =>
    /\ "data" \notin DOMAIN mrun.input =>
         (~mrun.out.raised /\ mrun.out.count = 0 /\ mrun.out.dir = {})
    /\ ("data" \in DOMAIN mrun.input /\ ~mrun.out.raised) =>
         /\ mrun.out.count = Cardinality(WithContent(mrun.input.data))
         /\ Len(mrun.out.log) = mrun.out.count
    /\ ("data" \in DOMAIN mrun.input /\ mrun.input.data = <<PageA, PageNoHtml, PageB>>) =>
         (~mrun.out.raised /\ mrun.out.count = 2 /\ Cardinality(mrun.out.dir) = 2)

\* two entries with content around one without
C23_Witness ==
  /\ mrun.pc = "crawlhtml"
  /\ "data" \in DOMAIN mrun.input
  /\ mrun.input.data = <<PageA, PageNoHtml, PageB>>
  /\ mrun.out.count = 2
  /\ Cardinality(mrun.out.dir) = 2

UnsafeChars == {"/", "?", "&", ":"}

\* the URL without "https://" and "http://", every unsafe character
\* replaced by "_"
Sanitized(url) ==
  LET u == ReplaceAll(ReplaceAll(url, <<"h", "t", "t", "p", "s", ":", "/", "/">>, <<>>),
                      <<"h", "t", "t", "p", ":", "/", "/">>, <<>>)
  IN [k \in 1..Len(u) |-> IF u[k] \in UnsafeChars THEN "_" ELSE u[k]]

\* C24: for every page URL the file name chosen by
\* _process_crawlhtml_results is the sanitized URL followed by ".html" or,
\* when the sanitized URL is longer than 200 characters, the part of it
\* before its first "_", then "_", the MD5 digest of the full URL and
\* ".html".  The name contains none of "/", "?", "&", ":", its length is one
\* the file system takes, and it is the same for the same URL.
C24_FileNames ==
  mrun.pc = "crawlhtml" =>
    \A k \in DOMAIN mrun.out.log :
      LET url == mrun.out.log[k].url
          name == mrun.out.log[k].name
          s == Sanitized(url)
      IN /\ name = IF Len(s) > NameLimit
                     THEN BeforeFirst(s, "_") \o <<"_">> \o md5_hexdigest(url) \o HtmlSuffix
                     ELSE s \o HtmlSuffix
         /\ \A j \in DOMAIN name : name[j] \notin UnsafeChars
         /\ Len(name) <= NameMax
         /\ \A m \in DOMAIN mrun.out.log :
              mrun.out.log[m].url = url => mrun.out.log[m].name = name

\* C25: file naming in the html-crawl Materializer is collision-safe: after
\* _process_crawlhtml_results has run, the directory holds one file for
\* each page entry that has content, two pages with different URLs are
\* never written under the same name, and the count returned is the number
\* of files in the directory.
C25_OneFilePerPage ==
  (mrun.pc = "crawlhtml" /\ ~mrun.out.raised) =>
    /\ Cardinality(mrun.out.dir) = mrun.out.count
    /\ \A k, m \in DOMAIN mrun.out.log :
         mrun.out.log[k].url # mrun.out.log[m].url =>
           mrun.out.log[k].name # mrun.out.log[m].name

\* the well-formed entries of a data list that have markup content
WellFormedWithContent(data) ==
  {k \in DOMAIN data : WellFormedPage(data[k]) /\ "html" \in DOMAIN data[k]}

\* C26: a payload in which some page entries are malformed (an entry that
\* is no record, or whose metadata has the wrong shape) does not abort the
\* batch: _process_crawlhtml_results raises nothing, skips the malformed
\* entries and writes every well-formed entry that has content, returning
\* the count of those.  (Pages whose file name the file system refuses are
\* left aside here.)
C26_SkipsMalformedEntries ==
  (/\ mrun.pc = "crawlhtml"
   /\ "data" \in DOMAIN mrun.input
   /\ \A k \in DOMAIN mrun.out.log : Len(mrun.out.log[k].name) <= NameMax) =>
    /\ ~mrun.out.raised
    /\ mrun.out.count = Cardinality(WellFormedWithContent(mrun.input.data))

\* the payload carries synthesized text
CarriesText(result) == "data" \in DOMAIN result /\ "llmsfulltxt" \in DOMAIN result.data

RECURSIVE NewlinesRead(_)
\* a text with every "\r\n" and every other "\r" turned into "\n"
NewlinesRead(text) ==
  IF text = <<>> THEN <<>>
  ELSE IF Len(text) >= 2 /\ text[1] = CR /\ text[2] = LF
    THEN <<LF>> \o NewlinesRead(SubSeq(text, 3, Len(text)))
  ELSE IF text[1] = CR THEN <<LF>> \o NewlinesRead(Tail(text))
  ELSE <<text[1]>> \o NewlinesRead(Tail(text))

Encodable(text) == \A k \in DOMAIN text : text[k] # LoneSurrogate

RECURSIVE WithLinesep(_, _)
\* a text with every "\n" turned into the line separator
WithLinesep(text, linesep) ==
  IF text = <<>> THEN <<>>
  ELSE (IF text[1] = LF THEN linesep ELSE <<text[1]>>) \o WithLinesep(Tail(text), linesep)

\* C27 as stated: when the payload contains synthesized text,
\* _process_llmtxt_results writes exactly one file, named "llmfull.txt",
\* whose content read back equals the text, and returns 1; otherwise it
\* writes no file and returns 0.
C27_ReadBackEqualsText ==
  mrun.pc = "llmfulltxt" =>
    IF CarriesText(mrun.input)
      THEN /\ ~mrun.out.raised
           /\ mrun.out.count = 1
           /\ \E f \in mrun.out.dir :
                /\ mrun.out.dir = {f}
                /\ f.name = LlmFileName
                /\ TextRead(f.content) = mrun.input.data.llmsfulltxt
      ELSE ~mrun.out.raised /\ mrun.out.count = 0 /\ mrun.out.dir = {}

\* C27 (amended): when the payload contains synthesized text that UTF-8 can
\* encode, _process_llmtxt_results writes exactly one file, named
\* "llmfull.txt", and returns 1; the file read back as text is the
\* synthesized text, its "\n" written as the line separator, with every
\* "\r\n" and "\r" read as "\n", so it equals the text when the text has no
\* carriage return.  When the text cannot be
\* encoded the function raises and leaves "llmfull.txt" empty.  When the
\* payload has no synthesized text it writes no file and returns 0.
C27_OneTextFile ==
  mrun.pc = "llmfulltxt" =>
    LET text == mrun.input.data.llmsfulltxt IN
    IF ~CarriesText(mrun.input)
      THEN ~mrun.out.raised /\ mrun.out.count = 0 /\ mrun.out.dir = {}
    ELSE IF ~Encodable(text)
      THEN /\ mrun.out.raised
           /\ mrun.out.dir = {[name |-> LlmFileName, content |-> <<>>]}
    ELSE /\ ~mrun.out.raised
         /\ mrun.out.count = 1
         /\ \E f \in mrun.out.dir :
              /\ mrun.out.dir = {f}
              /\ f.name = LlmFileName
              /\ TextRead(f.content) = NewlinesRead(WithLinesep(text, mrun.linesep))
              /\ (\A k \in DOMAIN text : text[k] # CR) => TextRead(f.content) = text

\* a text with a character of two bytes and a newline, written where the
\* line separator is "\r\n", reads back as it was
C27_Witness ==
  /\ mrun.pc = "llmfulltxt"
  /\ CarriesText(mrun.input)
  /\ mrun.input.data.llmsfulltxt = <<EAcute, LF>>
  /\ mrun.linesep = <<CR, LF>>
  /\ mrun.out.count = 1
  /\ \E f \in mrun.out.dir : Len(f.content) = 4 /\ TextRead(f.content) = <<EAcute, LF>>

\* C28: orchestrations of different jobs in one process do not block one
\* another: an orchestration whose poll-interval wait is over is resumed
\* without waiting for a remote call of another orchestration, so it never
\* oversleeps, and it is never ready to run while another orchestration
\* holds the event loop in a call that does not return.
C28_NoBlocking ==
  \A i \in DOMAIN tasks :
    /\ tasks[i].overslept = 0
    /\ Ready(tasks[i]) => \A j \in DOMAIN tasks : tasks[j].pc # "blocked"

\* C29: a status query through _check_job_status may be interleaved at any
\* point with the background orchestration of the same job and leaves it as
\* it would have run without the query: while the query is under way the
\* orchestration of that job is not kept from resuming when its wait is
\* over, neither for the time the query's remote call takes (it does not
\* oversleep) nor for good (it is not ready to run while the query holds
\* the event loop in a call that does not return).
C29_QueryLeavesOrchestration ==
  probe.pc # "none" =>
    \A i \in DOMAIN tasks :
      (tasks[i].origin = "launch" /\ tasks[i].job_id = probe.job_id) =>
        /\ tasks[i].overslept = 0
        /\ probe.pc = "blocked" => ~Ready(tasks[i])

\* C30: in every completed record of wait_for_job_completion
\* uploaded_files + failed_uploads = file_count: every file the
\* Materializer reports having written is accounted for by exactly one
\* upload outcome, and nothing is uploaded that it did not report.
C30_CountersAddUp ==
  \A i \in DOMAIN tasks :
    tasks[i].outcome = "completed" =>
      tasks[i].result.uploaded_files + tasks[i].result.failed_uploads
        = tasks[i].result.file_count

====
